---- MODULE Spec2Model ----
(***************************************************************************)
(* The telemetry client (class MQTTService) and the recording controller   *)
(* (component DataCollectionForm) of motion-sense-predict, with the        *)
(* JavaScript timers they schedule.                                        *)
(*                                                                         *)
(* Both delays of the program are multiples of TimeUnitMs, so a timer is   *)
(* followed from one TimeUnitMs milestone to the next: it carries the time *)
(* left at its last milestone and fires at the milestone that uses it up.  *)
(* A milestone is always TimeUnitMs after the step that set it, so the     *)
(* milestones come in the order in which they were set: queue holds the    *)
(* timers in that order and only its head moves.  A user event may come at *)
(* any instant.  Every callback runs to completion: a promise continuation *)
(* (the code after an await) is a microtask and runs right after the task  *)
(* that settled the promise, so it belongs to the same step.               *)
(*                                                                         *)
(* The component is followed through one lifetime: rendered, mounted (its  *)
(* effect configures the client), unmounted (the cleanup disconnects).     *)
(* User events are enabled as the rendered buttons allow; the handler of   *)
(* a disabled button can also be called directly, which reaches only its   *)
(* validation branch.  An observer is named by the number of the connect() *)
(* call that registered it, a generator timer by the number of the         *)
(* connect() call whose timeout started it, a sample by its arrival        *)
(* number.  The functions of services/mqttService.ts share no state with   *)
(* the component and are exercised in runs of their own, in which the      *)
(* broker sends messages of subscribed topics down open connections; a     *)
(* listener is named by the number of the subscribeTopic call that added   *)
(* it, a message by its arrival number.  A name typed into the             *)
(* new-activity input is the sequence of its characters.                   *)
(*                                                                         *)
(* The authentication state has two providers: the hooks useAuthState and  *)
(* useAuthOperations, and the AuthProvider that keeps its users in the     *)
(* array MOCK_USERS.  A run of their own mounts one of them and calls its  *)
(* login, register and logout; a call that awaits stays in authCalls until *)
(* the awaited answer comes.  The page can be reloaded, which keeps only   *)
(* localStorage and the backend's table.                                   *)
(***************************************************************************)
EXTENDS Integers, Sequences, FiniteSets, TLC

\* ------------------------------------------------------------------ bounds
\* A run is either a short one of many connect() calls or a long one of few:
\* connect() calls and samples generated in a short run
MaxConnects == 3
RaceSamples == 3
\* connect() calls and samples generated in a long run
LongConnects == 1
MaxSamples == 22
\* connectMqtt() calls in a run of the functions of services/mqttService.ts,
\* which the component does not call
MaxMqttConnects == 3
\* connectMqtt() calls, subscribeTopic() calls and messages sent by the broker
\* in a run of services/mqttService.ts that subscribes
MsgConnects == 1
MaxSubscribes == 2
MaxMessages == 2
\* names added in a run that adds activities; such a run makes as many connect()
\* calls as a long run and generates no sample
MaxAdds == 2
\* login() and register() calls in a run of the authentication state
MaxAuthCalls == 2

\* ------------------------------------------------------- program constants
\* DataCollectionForm.tsx:46  if (updatedData.length > 20)
WindowSize == 20
\* DataCollectionForm.tsx:390 setTimeout(..., 500)
ConnectDelayMs == 500
\* DataCollectionForm.tsx:473 setInterval(..., 1000)
TickPeriodMs == 1000
\* the step of the clock: both delays are multiples of it
TimeUnitMs == ConnectDelayMs
\* DataCollectionForm.tsx:15
DEFAULT_ACTIVITIES == <<"standing", "sitting", "walking">>
\* the topics of a run of services/mqttService.ts
Topics == {"esp32/sensor_data", "esp32/status"}

\* the user names and passwords of a run of the authentication state
Usernames == {"demo", "ann"}
Passwords == {"pw", "other"}
\* the keys of localStorage the providers use
StorageKeys == {"mockUser", "currentUser", "user"}

\* user === null, and a key localStorage does not hold
NoUser == ""

Null == 0
Attempts == 1..MaxConnects

VARIABLES
    \* class MQTTService
    config,             \* Null, or 1 once configure() stored a configuration
    client,             \* Null, or the number of the connect() call that built the mock client
    onMessageCallback,  \* Null, or the number of the connect() call that registered the observer
    isConnected,
    \* timers of the event loop
    timeouts,           \* sequence of pending 'connect' timeouts, oldest first
    intervals,          \* set of live setInterval timers
    queue,              \* the live timers in the order of their next milestones
    \* component DataCollectionForm
    mounted,            \* "fresh" (rendered, effect not run), "mounted", "unmounted"
    selectedActivity,
    activities,
    isCollecting,
    chartDataRef,       \* chartDataRef.current
    sensorData,
    toast,              \* the toast shown last
    newActivity,        \* the characters in the new-activity input
    showNewActivityInput,
    \* history
    att,                \* what became of each connect() call
    nDelivered,         \* samples generated and delivered so far
    arrivals,           \* the samples handed to handleSensorData since the window was last emptied
    lastDelivery,       \* the last call of the observer
    saved,              \* what the last saveData reported
    disconnectsInARow,  \* calls of disconnect() since the last other step: 0, 1, or 2 for more
    lastAdd,            \* what the last addNewActivity found and did
    session,            \* the last start and the last stop of a recording
    \* services/mqttService.ts
    mqttClient,         \* the module's client: Null, or the number of the connection it holds
    mqttOpen,           \* the connections opened by mqtt.connect and not ended
    mqttMade,           \* connections opened so far
    mqttDisconnectsInARow, \* calls of disconnectMqtt() since the last other call: 0, 1, or 2 for more
    mqttSubscribed,     \* the pairs <<connection, topic>> subscribed
    mqttListeners,      \* the 'message' listeners added by subscribeTopic, in the order added
    mqttLast,           \* the last message the broker sent, n being its arrival number
    mqttReceived,       \* for each listener, the arrivals its callback was called with
    mqttCaught,         \* the pairs <<listener, arrival>> whose callback threw
    \* the run's limits, fixed by Init
    capConnects,        \* connect() calls
    capSamples,         \* samples generated
    capMqtt,            \* connectMqtt() calls
    capAdds,            \* activities added
    capSubs,            \* subscribeTopic() calls
    capMsgs,            \* messages sent by the broker
    capAuth,            \* login() and register() calls
    \* the authentication state
    authProvider,       \* "none", "hooks" (useAuthState + useAuthOperations) or "MOCK_USERS"
    isMockMode,
    authMounted,        \* the provider's effect has run
    user,               \* NoUser, or the name of the user signed in
    isLoading,
    localStorage,       \* for each key NoUser, or the name of the user stored
    Users,              \* the backend's table Users
    MOCK_USERS,         \* the names in the array MOCK_USERS
    authCalls,          \* the login() and register() calls that are awaiting, oldest first
    authMade,           \* login() and register() calls so far
    authLast            \* the login() or register() call that ended last

svcVars == <<config, client, onMessageCallback, isConnected>>
timerVars == <<timeouts, intervals, queue>>
formVars == <<mounted, selectedActivity, activities, isCollecting, chartDataRef, sensorData, toast>>
histVars == <<att, nDelivered, arrivals, lastDelivery, saved, disconnectsInARow, session>>
msgVars == <<mqttSubscribed, mqttListeners, mqttLast, mqttReceived, mqttCaught>>
mqttVars == <<mqttClient, mqttOpen, mqttMade, mqttDisconnectsInARow, msgVars>>
capVars == <<capConnects, capSamples, capMqtt, capAdds, capSubs, capMsgs, capAuth>>
inputVars == <<newActivity, showNewActivityInput, lastAdd>>
authVars == <<authProvider, isMockMode, authMounted, user, isLoading, localStorage, Users,
              MOCK_USERS, authCalls, authMade, authLast>>
vars == <<svcVars, timerVars, formVars, histVars, mqttVars, capVars, inputVars, authVars>>

\* ---------------------------------------------------------------- helpers
Min(a, b) == IF a < b THEN a ELSE b

\* Array.prototype.slice(start): the elements from 0-based index start on
slice(s, start) == SubSeq(s, start + 1, Len(s))

\* A text is the sequence of its characters; text(s) is the string they spell.
RECURSIVE text(_)
text(s) == IF s = <<>> THEN "" ELSE Head(s) \o text(Tail(s))

UpperCaseLetters == <<"A", "B", "C", "D", "E", "F", "G", "H", "I", "J", "K", "L", "M",
                      "N", "O", "P", "Q", "R", "S", "T", "U", "V", "W", "X", "Y", "Z">>
LowerCaseLetters == <<"a", "b", "c", "d", "e", "f", "g", "h", "i", "j", "k", "l", "m",
                      "n", "o", "p", "q", "r", "s", "t", "u", "v", "w", "x", "y", "z">>
WhiteSpace == {" ", "\t", "\n"}

\* String.prototype.toLowerCase
toLowerCase(s) ==
    [i \in 1..Len(s) |->
        IF \E n \in 1..Len(UpperCaseLetters) : UpperCaseLetters[n] = s[i]
        THEN LowerCaseLetters[CHOOSE n \in 1..Len(UpperCaseLetters) : UpperCaseLetters[n] = s[i]]
        ELSE s[i]]

\* String.prototype.trim
RECURSIVE trimStart(_)
trimStart(s) == IF s # <<>> /\ Head(s) \in WhiteSpace THEN trimStart(Tail(s)) ELSE s
RECURSIVE trimEnd(_)
trimEnd(s) ==
    IF s # <<>> /\ s[Len(s)] \in WhiteSpace THEN trimEnd(SubSeq(s, 1, Len(s) - 1)) ELSE s
trim(s) == trimEnd(trimStart(s))

\* Array.prototype.includes
includes(s, x) == \E n \in 1..Len(s) : s[n] = x

\* what the user types into the new-activity input: "", " ", "Walking", "Run",
\* " run ", "JOG"
TypedNames ==
    { <<>>, <<" ">>,
      <<"W", "a", "l", "k", "i", "n", "g">>,
      <<"R", "u", "n">>,
      <<" ", "r", "u", "n", " ">>,
      <<"J", "O", "G">> }

\* the spellings an activity name of the model can have: the defaults, and
\* what trim and toLowerCase make of a typed name
Spellings ==
    { <<"s", "t", "a", "n", "d", "i", "n", "g">>, <<"s", "i", "t", "t", "i", "n", "g">> }
    \cup TypedNames
    \cup { trim(t) : t \in TypedNames }
    \cup { toLowerCase(t) : t \in TypedNames }
    \cup { toLowerCase(trim(t)) : t \in TypedNames }

UpperCase == {UpperCaseLetters[n] : n \in 1..Len(UpperCaseLetters)}

\* the characters of an activity name
SpellingOf == [name \in {text(s) : s \in Spellings} |-> CHOOSE s \in Spellings : text(s) = name]
split(name) == SpellingOf[name]

\* a toast is modelled by its title
NoToast == ""

NoDelivery == [gen |-> Null, to |-> Null, stale |-> FALSE, retired |-> FALSE]
NotSaved == [ok |-> FALSE, count |-> 0, received |-> 0, activity |-> ""]
\* first: the number of samples delivered before the controller last entered
\* Recording; stopped: a stopCollection has completed and no startCollection
\* has called connect() since; snapshot: the window that stopCollection left;
\* activity: the activity selected when the controller last entered Recording,
\* "" once stopCollection has completed
NoSession == [first |-> 0, stopped |-> FALSE, snapshot |-> <<>>, activity |-> ""]
NoCall == [op |-> "none", threw |-> FALSE, isLoading |-> FALSE]
NoAdd == [outcome |-> "none", blank |-> FALSE, existed |-> FALSE, name |-> "",
          setUnchanged |-> TRUE, selectedUnchanged |-> TRUE,
          appended |-> FALSE, selected |-> FALSE]

Unused == [state |-> "unused", busy |-> FALSE, cancelled |-> FALSE,
           streaming |-> FALSE, retired |-> FALSE, configured |-> FALSE]

nConnects == Cardinality({k \in Attempts : att[k].state # "unused"})
Pending == {k \in Attempts : att[k].state = "pending"}

\* ------------------------------------------------------------------- Init
Init ==
    /\ config = Null
    /\ client = Null
    /\ onMessageCallback = Null
    /\ isConnected = FALSE
    /\ timeouts = <<>>
    /\ intervals = {}
    /\ queue = <<>>
    /\ mounted = "fresh"
    /\ selectedActivity = ""
    /\ activities = DEFAULT_ACTIVITIES
    /\ isCollecting = FALSE
    /\ chartDataRef = <<>>
    /\ sensorData = <<>>
    /\ toast = NoToast
    /\ newActivity = <<>>
    /\ showNewActivityInput = FALSE
    /\ lastAdd = NoAdd
    /\ att = [k \in Attempts |-> Unused]
    /\ nDelivered = 0
    /\ arrivals = <<>>
    /\ lastDelivery = NoDelivery
    /\ saved = NotSaved
    /\ session = NoSession
    /\ disconnectsInARow = 0
    /\ mqttClient = Null
    /\ mqttOpen = {}
    /\ mqttMade = 0
    /\ mqttDisconnectsInARow = 0
    /\ mqttSubscribed = {}
    /\ mqttListeners = <<>>
    /\ mqttLast = [n |-> 0, conn |-> Null, topic |-> "", malformed |-> FALSE]
    /\ mqttReceived = <<>>
    /\ mqttCaught = {}
    /\ user = NoUser
    /\ isLoading = TRUE
    /\ authMounted = FALSE
    /\ localStorage = [key \in StorageKeys |-> NoUser]
    /\ Users = {[user_id |-> 0, username |-> "demo", password_hash |-> "pw"]}
    /\ MOCK_USERS = <<"demo">>
    /\ authCalls = <<>>
    /\ authMade = 0
    /\ authLast = NoCall
    /\ \E cap \in {<<MaxConnects, RaceSamples, 0, 0, 0, 0, 0>>,
                    <<LongConnects, MaxSamples, 0, 0, 0, 0, 0>>,
                    <<LongConnects, 0, 0, MaxAdds, 0, 0, 0>>,
                    <<0, 0, MaxMqttConnects, 0, 0, 0, 0>>,
                    <<0, 0, MsgConnects, 0, MaxSubscribes, MaxMessages, 0>>,
                    <<0, 0, 0, 0, 0, 0, MaxAuthCalls>>} :
          /\ capConnects = cap[1]
          /\ capSamples = cap[2]
          /\ capMqtt = cap[3]
          /\ capAdds = cap[4]
          /\ capSubs = cap[5]
          /\ capMsgs = cap[6]
          /\ capAuth = cap[7]
    /\ \E provider \in {"hooks", "MOCK_USERS"}, mock \in BOOLEAN :
          /\ authProvider = IF capAuth = 0 THEN "none" ELSE provider
          /\ isMockMode = (capAuth # 0 /\ provider = "hooks" /\ mock)

\* ------------------------------------------------------------ MQTTService
\* configure(config)
configure == config' = 1

\* connect() without its first statement, if (!this.config) return Promise.reject(...):
\* the variant C8 is sensitive to
connect_withoutConfigCheck(k) ==
    /\ client' = k
    /\ onMessageCallback' = k
    /\ timeouts' = Append(timeouts, [att |-> k, left |-> ConnectDelayMs])
    /\ queue' = Append(queue, [timer |-> "timeout", id |-> k])
    /\ att' = [att EXCEPT ![k] = [Unused EXCEPT !.state = "pending",
                                                 !.busy = (Pending # {}),
                                                 !.configured = (config # Null)]]
    /\ UNCHANGED <<config, isConnected, intervals>>

\* connect() that stores the observer before it tests the configuration: the
\* variant C16 is sensitive to
connect_registersBeforeConfigCheck(k) ==
    IF config = Null
    THEN /\ onMessageCallback' = k
         /\ att' = [att EXCEPT ![k] = [Unused EXCEPT !.state = "rejected",
                                                      !.busy = (Pending # {})]]
         /\ UNCHANGED <<config, client, isConnected, timerVars>>
    ELSE /\ client' = k
         /\ onMessageCallback' = k
         /\ timeouts' = Append(timeouts, [att |-> k, left |-> ConnectDelayMs])
         /\ queue' = Append(queue, [timer |-> "timeout", id |-> k])
         /\ att' = [att EXCEPT ![k] = [Unused EXCEPT !.state = "pending",
                                                      !.busy = (Pending # {}),
                                                      !.configured = TRUE]]
         /\ UNCHANGED <<config, isConnected, intervals>>

\* connect(onMessageCallback), up to the return of the promise.  Without a
\* configuration the promise is rejected.  Otherwise call number k builds a new
\* mock client, registers the observer and, through client.on('connect', ...),
\* schedules the 500 ms timeout; client.on('error', ...) schedules nothing on
\* the mock client.
connect(k) ==
    IF config = Null
    THEN /\ att' = [att EXCEPT ![k] = [Unused EXCEPT !.state = "rejected",
                                                      !.busy = (Pending # {})]]
         /\ UNCHANGED <<svcVars, timerVars>>
    ELSE /\ client' = k
         /\ onMessageCallback' = k
         /\ timeouts' = Append(timeouts, [att |-> k, left |-> ConnectDelayMs])
         /\ queue' = Append(queue, [timer |-> "timeout", id |-> k])
         /\ att' = [att EXCEPT ![k] = [Unused EXCEPT !.state = "pending",
                                                      !.busy = (Pending # {}),
                                                      !.configured = TRUE]]
         /\ UNCHANGED <<config, isConnected, intervals>>

\* startMockDataGeneration() called from the timeout of connect() call k:
\* the intervals afterwards
startMockDataGeneration(k, cb, timers) ==
    IF cb = Null
    THEN timers
    ELSE timers \cup {[id |-> k, left |-> TickPeriodMs, stale |-> FALSE]}

\* disconnect() without this.onMessageCallback = null: the variant C5 is sensitive to
disconnect_keepsObserver(c, conn, cb) ==
    IF c # Null /\ conn
    THEN [isConnected |-> FALSE, onMessageCallback |-> cb]
    ELSE [isConnected |-> conn, onMessageCallback |-> cb]

\* disconnect() without this.isConnected = false: the variant C6 is sensitive to
disconnect_staysConnected(c, conn, cb) ==
    IF c # Null /\ conn
    THEN [isConnected |-> conn, onMessageCallback |-> Null]
    ELSE [isConnected |-> conn, onMessageCallback |-> cb]

\* disconnect(): the connected flag and the observer afterwards, from the
\* client handle, the connected flag and the observer before
disconnect(c, conn, cb) ==
    IF c # Null /\ conn
    THEN [isConnected |-> FALSE, onMessageCallback |-> Null]
    ELSE [isConnected |-> conn, onMessageCallback |-> cb]

\* a call of disconnect(), with the history it leaves: the connect() calls it
\* found pending, the observer it found streaming, the timers it found alive
disconnectCall ==
    LET r == disconnect(client, isConnected, onMessageCallback) IN
    /\ isConnected' = r.isConnected
    /\ onMessageCallback' = r.onMessageCallback
    /\ intervals' = {[i EXCEPT !.stale = TRUE] : i \in intervals}
    /\ att' = [k \in Attempts |->
                 [att[k] EXCEPT
                    !.cancelled = @ \/ att[k].state = "pending",
                    !.retired = @ \/ (client # Null /\ isConnected /\ onMessageCallback = k)]]
    /\ disconnectsInARow' = Min(disconnectsInARow + 1, 2)
    /\ UNCHANGED <<authVars, mqttVars, capVars, inputVars>>
    /\ UNCHANGED <<config, client, timeouts, queue>>

\* ----------------------------------------------------- DataCollectionForm
\* handleSensorData with slice(0, 20), which drops the newest sample: the variant
\* C1 is sensitive to
slideWindow_keepsOldest(w, data) ==
    LET updatedData == Append(w, data) IN
    IF Len(updatedData) > WindowSize
    THEN SubSeq(updatedData, 1, WindowSize)
    ELSE updatedData

\* handleSensorData: chartDataRef.current afterwards
slideWindow(w, data) ==
    LET updatedData == Append(w, data) IN
    IF Len(updatedData) > WindowSize
    THEN slice(updatedData, Len(updatedData) - WindowSize)
    ELSE updatedData

\* setState of a component that is no longer mounted changes nothing
setState(old, new) == IF mounted = "mounted" THEN new ELSE old

handleSensorData(data) ==
    /\ chartDataRef' = slideWindow(chartDataRef, data)
    /\ sensorData' = setState(sensorData, chartDataRef')
    /\ arrivals' = Append(arrivals, data)

\* useEffect(() => { mqttService.configure(config); ... }, []); a run of the
\* functions of services/mqttService.ts leaves the component alone
MountEffect ==
    /\ capMqtt = 0
    /\ capAuth = 0
    /\ mounted = "fresh"
    /\ mounted' = "mounted"
    /\ configure
    /\ disconnectsInARow' = 0
    /\ UNCHANGED <<authVars, mqttVars, capVars, inputVars>>
    /\ UNCHANGED <<client, onMessageCallback, isConnected, timerVars, selectedActivity,
                   activities, isCollecting, chartDataRef, sensorData, toast,
                   att, nDelivered, arrivals, lastDelivery, saved, session>>

\* the cleanup of the effect: mqttService.disconnect()
Unmount ==
    /\ mounted = "mounted"
    /\ mounted' = "unmounted"
    /\ disconnectCall
    /\ UNCHANGED <<selectedActivity, activities, isCollecting, chartDataRef, sensorData,
                   toast, nDelivered, arrivals, lastDelivery, saved, session>>

\* <Select onValueChange={setSelectedActivity} disabled={isCollecting}>, rendered
\* while the new-activity input is not shown
SelectOnValueChange(a) ==
    /\ mounted = "mounted"
    /\ ~showNewActivityInput
    /\ ~isCollecting
    /\ selectedActivity' = a
    /\ disconnectsInARow' = 0
    /\ UNCHANGED <<authVars, mqttVars, capVars, inputVars>>
    /\ UNCHANGED <<svcVars, timerVars, mounted, activities, isCollecting, chartDataRef,
                   sensorData, toast, att, nDelivered, arrivals, lastDelivery, saved, session>>

\* <Badge onClick={() => !isCollecting && setSelectedActivity(activity)}>
BadgeOnClick(a) ==
    /\ mounted = "mounted"
    /\ selectedActivity' = IF ~isCollecting THEN a ELSE selectedActivity
    /\ disconnectsInARow' = 0
    /\ UNCHANGED <<authVars, mqttVars, capVars, inputVars>>
    /\ UNCHANGED <<svcVars, timerVars, mounted, activities, isCollecting, chartDataRef,
                   sensorData, toast, att, nDelivered, arrivals, lastDelivery, saved, session>>

\* startCollection without its test of selectedActivity: the variant C12 is
\* sensitive to
startCollection_withoutValidation ==
    /\ disconnectsInARow' = 0
    /\ UNCHANGED <<authVars, mqttVars, capVars, inputVars>>
    /\ nConnects < capConnects
    /\ connect(nConnects + 1)
    /\ toast' = IF config = Null THEN "Connection Error" ELSE toast
    /\ session' = [session EXCEPT !.stopped = FALSE]
    /\ UNCHANGED <<mounted, selectedActivity, activities, isCollecting, chartDataRef,
                   sensorData, nDelivered, arrivals, lastDelivery, saved>>

\* startCollection, up to its await (and through its catch when connect rejects)
startCollection ==
    /\ disconnectsInARow' = 0
    /\ UNCHANGED <<authVars, mqttVars, capVars, inputVars>>
    /\ IF selectedActivity = ""
       THEN /\ toast' = "Error"
            /\ UNCHANGED <<svcVars, timerVars, att, session>>
       ELSE /\ nConnects < capConnects
            /\ connect(nConnects + 1)
            /\ toast' = IF config = Null THEN "Connection Error" ELSE toast
            /\ session' = [session EXCEPT !.stopped = FALSE]
    /\ UNCHANGED <<mounted, selectedActivity, activities, isCollecting, chartDataRef,
                   sensorData, nDelivered, arrivals, lastDelivery, saved>>

\* startCollection after its await without chartDataRef.current = [] and
\* setSensorData([]): the variant C14 is sensitive to
startCollectionResumed_keepsWindow ==
    /\ isCollecting' = setState(isCollecting, TRUE)
    /\ toast' = "Data Collection Started"
    /\ session' = [session EXCEPT !.first = nDelivered, !.activity = selectedActivity]
    /\ UNCHANGED <<chartDataRef, sensorData, arrivals>>

\* startCollection after its await, when the promise of connect() has resolved
startCollectionResumed ==
    /\ isCollecting' = setState(isCollecting, TRUE)
    /\ chartDataRef' = <<>>
    /\ sensorData' = setState(sensorData, <<>>)
    /\ arrivals' = <<>>
    /\ toast' = "Data Collection Started"
    /\ session' = [session EXCEPT !.first = nDelivered, !.activity = selectedActivity]

\* stopCollection: the promise of disconnect() is settled when it returns
stopCollection ==
    /\ disconnectCall
    /\ isCollecting' = setState(isCollecting, FALSE)
    /\ toast' = "Data Collection Stopped"
    /\ session' = [session EXCEPT !.stopped = TRUE, !.snapshot = chartDataRef,
                                  !.activity = ""]
    /\ UNCHANGED <<mounted, selectedActivity, activities, chartDataRef, sensorData,
                   nDelivered, arrivals, lastDelivery, saved>>

\* saveData without its length check: the variant C10 is sensitive to
saveData_noCheck(w, activity) ==
    [ok |-> TRUE, toast |-> "Data Saved", count |-> Len(w), activity |-> activity]

\* saveData: the toast it shows and, when it reports a save, the number of data
\* points and the activity it names
saveData(w, activity) ==
    IF Len(w) = 0
    THEN [ok |-> FALSE, toast |-> "No Data", count |-> 0, activity |-> ""]
    ELSE [ok |-> TRUE, toast |-> "Data Saved", count |-> Len(w), activity |-> activity]

saveDataCall ==
    LET r == saveData(chartDataRef, selectedActivity) IN
    /\ toast' = r.toast
    /\ saved' = IF r.ok
                THEN [ok |-> TRUE, count |-> r.count, received |-> Len(arrivals),
                      activity |-> r.activity]
                ELSE saved
    /\ disconnectsInARow' = 0
    /\ UNCHANGED <<authVars, mqttVars, capVars, inputVars>>
    /\ UNCHANGED <<svcVars, timerVars, mounted, selectedActivity, activities, isCollecting,
                   chartDataRef, sensorData, att, nDelivered, arrivals, lastDelivery, session>>

\* addNewActivity with activities.includes(newActivity.trim()), which compares
\* the name as typed: the variant C11 is sensitive to
addNewActivity_caseSensitive(typed, acts, sel) ==
    IF trim(typed) = <<>>
    THEN [toast |-> "Invalid Activity", added |-> FALSE, activities |-> acts,
          selectedActivity |-> sel]
    ELSE IF includes(acts, text(trim(typed)))
    THEN [toast |-> "Activity Exists", added |-> FALSE, activities |-> acts,
          selectedActivity |-> sel]
    ELSE [toast |-> "Activity Added", added |-> TRUE,
          activities |-> Append(acts, text(toLowerCase(trim(typed)))),
          selectedActivity |-> text(toLowerCase(trim(typed)))]

\* addNewActivity with setActivities([...activities, newActivity.toLowerCase()]),
\* which stores the name with its surrounding blanks: the variant C22 is
\* sensitive to
addNewActivity_untrimmed(typed, acts, sel) ==
    IF trim(typed) = <<>>
    THEN [toast |-> "Invalid Activity", added |-> FALSE, activities |-> acts,
          selectedActivity |-> sel]
    ELSE IF includes(acts, text(toLowerCase(trim(typed))))
    THEN [toast |-> "Activity Exists", added |-> FALSE, activities |-> acts,
          selectedActivity |-> sel]
    ELSE [toast |-> "Activity Added", added |-> TRUE,
          activities |-> Append(acts, text(toLowerCase(typed))),
          selectedActivity |-> text(toLowerCase(typed))]

\* addNewActivity: the toast it shows, whether it added a name, and the
\* activities and the selected activity afterwards
addNewActivity(typed, acts, sel) ==
    IF trim(typed) = <<>>
    THEN [toast |-> "Invalid Activity", added |-> FALSE, activities |-> acts,
          selectedActivity |-> sel]
    ELSE IF includes(acts, text(toLowerCase(trim(typed))))
    THEN [toast |-> "Activity Exists", added |-> FALSE, activities |-> acts,
          selectedActivity |-> sel]
    ELSE [toast |-> "Activity Added", added |-> TRUE,
          activities |-> Append(acts, text(toLowerCase(trim(typed)))),
          selectedActivity |-> text(toLowerCase(trim(typed)))]

\* the same activity name, whatever the case and the surrounding blanks
sameName(typed, activity) == text(toLowerCase(trim(typed))) = activity

\* <Button size="sm" onClick={addNewActivity}>Add</Button>, rendered while the
\* new-activity input is shown
ButtonAdd ==
    /\ mounted = "mounted"
    /\ showNewActivityInput
    /\ LET r == addNewActivity(newActivity, activities, selectedActivity) IN
       /\ r.added => Len(activities) < Len(DEFAULT_ACTIVITIES) + capAdds
       /\ toast' = r.toast
       /\ activities' = r.activities
       /\ selectedActivity' = r.selectedActivity
       /\ newActivity' = IF r.added THEN <<>> ELSE newActivity
       /\ showNewActivityInput' = IF r.added THEN FALSE ELSE showNewActivityInput
       /\ lastAdd' = [outcome |-> r.toast,
                      blank |-> \A n \in 1..Len(newActivity) : newActivity[n] \in WhiteSpace,
                      existed |-> \E n \in 1..Len(activities) :
                                     sameName(newActivity, activities[n]),
                      name |-> text(toLowerCase(trim(newActivity))),
                      setUnchanged |-> activities' = activities,
                      selectedUnchanged |-> selectedActivity' = selectedActivity,
                      appended |-> activities' =
                                      Append(activities, text(toLowerCase(trim(newActivity)))),
                      selected |-> selectedActivity' = text(toLowerCase(trim(newActivity)))]
    /\ disconnectsInARow' = 0
    /\ UNCHANGED <<authVars, mqttVars, capVars>>
    /\ UNCHANGED <<svcVars, timerVars, mounted, isCollecting, chartDataRef, sensorData,
                   att, nDelivered, arrivals, lastDelivery, saved, session>>

\* <Input onChange={(e) => setNewActivity(e.target.value)}>
InputOnChange(typed) ==
    /\ mounted = "mounted"
    /\ showNewActivityInput
    /\ newActivity' = typed
    /\ disconnectsInARow' = 0
    /\ UNCHANGED <<authVars, mqttVars, capVars, showNewActivityInput, lastAdd>>
    /\ UNCHANGED <<svcVars, timerVars, formVars, att, nDelivered, arrivals, lastDelivery,
                   saved, session>>

\* <Button onClick={() => setShowNewActivityInput(true)} disabled={isCollecting}>,
\* rendered while the new-activity input is not shown
PlusCircleOnClick ==
    /\ capAdds > 0
    /\ mounted = "mounted"
    /\ ~showNewActivityInput
    /\ ~isCollecting
    /\ showNewActivityInput' = TRUE
    /\ disconnectsInARow' = 0
    /\ UNCHANGED <<authVars, mqttVars, capVars, newActivity, lastAdd>>
    /\ UNCHANGED <<svcVars, timerVars, formVars, att, nDelivered, arrivals, lastDelivery,
                   saved, session>>

\* <Button onClick={() => setShowNewActivityInput(false)}><X/></Button>
XOnClick ==
    /\ mounted = "mounted"
    /\ showNewActivityInput
    /\ showNewActivityInput' = FALSE
    /\ disconnectsInARow' = 0
    /\ UNCHANGED <<authVars, mqttVars, capVars, newActivity, lastAdd>>
    /\ UNCHANGED <<svcVars, timerVars, formVars, att, nDelivered, arrivals, lastDelivery,
                   saved, session>>

\* <Button onClick={isCollecting ? stopCollection : startCollection}
\*         disabled={!selectedActivity && !isCollecting}>
StartStopEnabled == ~(selectedActivity = "" /\ ~isCollecting)

ButtonStartStop ==
    /\ mounted = "mounted"
    /\ StartStopEnabled
    /\ IF isCollecting THEN stopCollection ELSE startCollection

\* <Button onClick={saveData} disabled={isCollecting || chartDataRef.current.length === 0}>
SaveEnabled == ~(isCollecting \/ Len(chartDataRef) = 0)

ButtonSave ==
    /\ mounted = "mounted"
    /\ SaveEnabled
    /\ saveDataCall

\* The handler a disabled button is bound to, called all the same: the call
\* reaches the handler's own validation.
CallStartCollection ==
    /\ mounted = "mounted"
    /\ ~StartStopEnabled
    /\ startCollection

CallSaveData ==
    /\ mounted = "mounted"
    /\ ~SaveEnabled
    /\ ~isCollecting
    /\ saveDataCall

\* connect() called on the exported singleton before any configure()
CallConnectUnconfigured ==
    /\ config = Null
    /\ nConnects < capConnects
    /\ connect(nConnects + 1)
    /\ disconnectsInARow' = 0
    /\ UNCHANGED <<authVars, mqttVars, capVars, inputVars>>
    /\ UNCHANGED <<formVars, nDelivered, arrivals, lastDelivery, saved, session>>

\* ------------------------------------- hooks/use-auth-state.ts, use-auth-operations.ts
\* what an authentication step leaves alone outside the authentication state
\* and the toast
authFrame ==
    UNCHANGED <<svcVars, timerVars, mounted, selectedActivity, activities, isCollecting,
                chartDataRef, sensorData, histVars, mqttVars, capVars, inputVars>>

RemoveAt(s, n) == SubSeq(s, 1, n - 1) \o SubSeq(s, n + 1, Len(s))

\* .from('Users').select(..).eq('username', username).single(): the set of
\* the one row, or the empty set (data: null) when the request failed or the
\* rows are not exactly one
single(username, failed) ==
    LET rows == {u \in Users : u.username = username} IN
    IF ~failed /\ Cardinality(rows) = 1 THEN rows ELSE {}

\* the effect of useAuthState (checkSession) and of the AuthProvider
AuthMountEffect ==
    /\ authProvider # "none"
    /\ ~authMounted
    /\ authMounted' = TRUE
    /\ LET storedUser ==
              IF authProvider = "MOCK_USERS" THEN localStorage["user"]
              ELSE IF isMockMode /\ localStorage["mockUser"] # NoUser
                   THEN localStorage["mockUser"]
                   ELSE localStorage["currentUser"] IN
       user' = IF storedUser # NoUser THEN storedUser ELSE user
    /\ isLoading' = FALSE
    /\ UNCHANGED <<authProvider, isMockMode, localStorage, Users, MOCK_USERS, authCalls,
                   authMade, authLast, toast>>
    /\ authFrame

\* the page is loaded again: the component state and the module's array start
\* afresh, the calls that were awaiting are gone, localStorage and the
\* backend's table stay
Reload ==
    /\ authMounted
    /\ authMounted' = FALSE
    /\ user' = NoUser
    /\ isLoading' = TRUE
    /\ MOCK_USERS' = <<"demo">>
    /\ authCalls' = <<>>
    /\ authLast' = NoCall
    /\ toast' = NoToast
    /\ UNCHANGED <<authProvider, isMockMode, localStorage, Users, authMade>>
    /\ authFrame

\* login(username, password) of useAuthOperations, up to its await; in mock
\* mode it awaits nothing and ends in the same step
loginCall(username, password) ==
    /\ authProvider = "hooks"
    /\ authMounted
    /\ authMade < capAuth
    /\ authMade' = authMade + 1
    /\ IF isMockMode
       THEN /\ isLoading' = FALSE
            /\ user' = IF username = "demo" THEN "demo" ELSE user
            /\ localStorage' = IF username = "demo"
                               THEN [localStorage EXCEPT !["mockUser"] = "demo"]
                               ELSE localStorage
            /\ toast' = IF username = "demo" THEN toast ELSE "Login failed"
            /\ authLast' = [op |-> "login", threw |-> username # "demo",
                            isLoading |-> isLoading']
            /\ UNCHANGED authCalls
       ELSE /\ isLoading' = TRUE
            /\ authCalls' = Append(authCalls, [op |-> "login", at |-> "select",
                                               username |-> username, password |-> password])
            /\ UNCHANGED <<user, localStorage, toast, authLast>>
    /\ UNCHANGED <<authProvider, isMockMode, authMounted, Users, MOCK_USERS>>
    /\ authFrame

\* login after its await: the answer of the backend, then catch and finally
loginSelected(n, userError) ==
    /\ authProvider = "hooks"
    /\ authCalls[n].op = "login"
    /\ LET call == authCalls[n]
           existingUser == single(call.username, userError)
           ok == \E row \in existingUser : row.password_hash = call.password IN
       /\ isLoading' = FALSE
       /\ user' = IF ok THEN call.username ELSE user
       /\ localStorage' = IF ok THEN [localStorage EXCEPT !["currentUser"] = call.username]
                          ELSE localStorage
       /\ toast' = IF ok THEN "Success" ELSE "Login failed"
       /\ authLast' = [op |-> "login", threw |-> ~ok, isLoading |-> isLoading']
    /\ authCalls' = RemoveAt(authCalls, n)
    /\ UNCHANGED <<authProvider, isMockMode, authMounted, Users, MOCK_USERS, authMade>>
    /\ authFrame

\* register(userData) of useAuthOperations, up to its first await; in mock
\* mode it awaits nothing and ends in the same step
registerCall(username, password) ==
    /\ authProvider = "hooks"
    /\ authMounted
    /\ authMade < capAuth
    /\ authMade' = authMade + 1
    /\ IF isMockMode
       THEN /\ isLoading' = FALSE
            /\ user' = username
            /\ localStorage' = [localStorage EXCEPT !["mockUser"] = username]
            /\ toast' = "Success"
            /\ authLast' = [op |-> "register", threw |-> FALSE, isLoading |-> isLoading']
            /\ UNCHANGED authCalls
       ELSE /\ isLoading' = TRUE
            /\ authCalls' = Append(authCalls, [op |-> "register", at |-> "select",
                                               username |-> username, password |-> password,
                                               user_id |-> authMade'])
            /\ UNCHANGED <<user, localStorage, toast, authLast>>
    /\ UNCHANGED <<authProvider, isMockMode, authMounted, Users, MOCK_USERS>>
    /\ authFrame

\* register after its first await: a row with the name ends the call, no row
\* (or no answer) sends the insert
registerSelected(n, selectError) ==
    /\ authProvider = "hooks"
    /\ authCalls[n].op = "register"
    /\ authCalls[n].at = "select"
    /\ IF single(authCalls[n].username, selectError) # {}
       THEN /\ isLoading' = FALSE
            /\ toast' = "Registration failed"
            /\ authLast' = [op |-> "register", threw |-> TRUE, isLoading |-> isLoading']
            /\ authCalls' = RemoveAt(authCalls, n)
       ELSE /\ authCalls' = [authCalls EXCEPT ![n].at = "insert"]
            /\ UNCHANGED <<isLoading, toast, authLast>>
    /\ UNCHANGED <<authProvider, isMockMode, authMounted, user, localStorage, Users,
                   MOCK_USERS, authMade>>
    /\ authFrame

\* register after its second await: the answer to the insert, then catch and
\* finally
registerInserted(n, insertError) ==
    /\ authProvider = "hooks"
    /\ authCalls[n].op = "register"
    /\ authCalls[n].at = "insert"
    /\ LET call == authCalls[n] IN
       /\ isLoading' = FALSE
       /\ Users' = IF insertError THEN Users
                   ELSE Users \cup {[user_id |-> call.user_id, username |-> call.username,
                                     password_hash |-> call.password]}
       /\ user' = IF insertError THEN user ELSE call.username
       /\ localStorage' = IF insertError THEN localStorage
                          ELSE [localStorage EXCEPT !["currentUser"] = call.username]
       /\ toast' = IF insertError THEN "Registration failed" ELSE "Success"
       /\ authLast' = [op |-> "register", threw |-> insertError, isLoading |-> isLoading']
    /\ authCalls' = RemoveAt(authCalls, n)
    /\ UNCHANGED <<authProvider, isMockMode, authMounted, MOCK_USERS, authMade>>
    /\ authFrame

\* logout() of useAuthOperations
logout ==
    /\ authProvider = "hooks"
    /\ authMounted
    /\ user # NoUser
    /\ user' = NoUser
    /\ localStorage' = IF isMockMode
                       THEN [localStorage EXCEPT !["mockUser"] = NoUser, !["currentUser"] = NoUser]
                       ELSE [localStorage EXCEPT !["currentUser"] = NoUser]
    /\ toast' = IF isMockMode THEN toast ELSE "Logged out"
    /\ UNCHANGED <<authProvider, isMockMode, authMounted, isLoading, Users, MOCK_USERS,
                   authCalls, authMade, authLast>>
    /\ authFrame

\* ------------------------------------------------ AuthProvider with MOCK_USERS
\* login(username, password), up to its await of the 1000 ms timeout
AuthProvider_loginCall(username) ==
    /\ authProvider = "MOCK_USERS"
    /\ authMounted
    /\ authMade < capAuth
    /\ authMade' = authMade + 1
    /\ isLoading' = TRUE
    /\ authCalls' = Append(authCalls, [op |-> "login", at |-> "timeout",
                                       username |-> username])
    /\ UNCHANGED <<authProvider, isMockMode, authMounted, user, localStorage, Users,
                   MOCK_USERS, authLast, toast>>
    /\ authFrame

\* login after its await; the timeouts have one delay and fire in the order
\* in which they were set
AuthProvider_loginResumed ==
    /\ authProvider = "MOCK_USERS"
    /\ authCalls # <<>>
    /\ Head(authCalls).op = "login"
    /\ LET username == Head(authCalls).username
           foundUser == includes(MOCK_USERS, username) IN
       /\ isLoading' = IF foundUser THEN FALSE ELSE isLoading
       /\ user' = IF foundUser THEN username ELSE user
       /\ localStorage' = IF foundUser THEN [localStorage EXCEPT !["user"] = username]
                          ELSE localStorage
       /\ authLast' = [op |-> "login", threw |-> ~foundUser, isLoading |-> isLoading']
    /\ authCalls' = Tail(authCalls)
    /\ UNCHANGED <<authProvider, isMockMode, authMounted, Users, MOCK_USERS, authMade, toast>>
    /\ authFrame

\* register(userData), up to its await of the 1000 ms timeout
AuthProvider_registerCall(username) ==
    /\ authProvider = "MOCK_USERS"
    /\ authMounted
    /\ authMade < capAuth
    /\ authMade' = authMade + 1
    /\ isLoading' = TRUE
    /\ authCalls' = Append(authCalls, [op |-> "register", at |-> "timeout",
                                       username |-> username])
    /\ UNCHANGED <<authProvider, isMockMode, authMounted, user, localStorage, Users,
                   MOCK_USERS, authLast, toast>>
    /\ authFrame

\* register after its await
AuthProvider_registerResumed ==
    /\ authProvider = "MOCK_USERS"
    /\ authCalls # <<>>
    /\ Head(authCalls).op = "register"
    /\ LET username == Head(authCalls).username
           exists == includes(MOCK_USERS, username) IN
       /\ isLoading' = IF exists THEN isLoading ELSE FALSE
       /\ MOCK_USERS' = IF exists THEN MOCK_USERS ELSE Append(MOCK_USERS, username)
       /\ user' = IF exists THEN user ELSE username
       /\ localStorage' = IF exists THEN localStorage
                          ELSE [localStorage EXCEPT !["user"] = username]
       /\ authLast' = [op |-> "register", threw |-> exists, isLoading |-> isLoading']
    /\ authCalls' = Tail(authCalls)
    /\ UNCHANGED <<authProvider, isMockMode, authMounted, Users, authMade, toast>>
    /\ authFrame

\* logout()
AuthProvider_logout ==
    /\ authProvider = "MOCK_USERS"
    /\ authMounted
    /\ user # NoUser
    /\ user' = NoUser
    /\ localStorage' = [localStorage EXCEPT !["user"] = NoUser]
    /\ UNCHANGED <<authProvider, isMockMode, authMounted, isLoading, Users, MOCK_USERS,
                   authCalls, authMade, authLast, toast>>
    /\ authFrame

\* ---------------------------------------------------- services/mqttService.ts
\* connectMqtt(), up to the return of the promise: client = mqtt.connect(MQTT_SERVER)
connectMqtt ==
    /\ mqttMade < capMqtt
    /\ mqttMade' = mqttMade + 1
    /\ mqttClient' = mqttMade'
    /\ mqttOpen' = mqttOpen \cup {mqttMade'}
    /\ mqttDisconnectsInARow' = 0
    /\ UNCHANGED msgVars
    /\ UNCHANGED <<authVars, svcVars, timerVars, formVars, histVars, capVars, inputVars>>

\* disconnectMqtt(): the module's client and the open connections afterwards
disconnectMqtt(c, open) ==
    IF c = Null
    THEN [client |-> c, open |-> open]
    ELSE [client |-> Null, open |-> open \ {c}]

disconnectMqttCall ==
    /\ capMqtt > 0
    /\ LET r == disconnectMqtt(mqttClient, mqttOpen) IN
       /\ mqttClient' = r.client
       /\ mqttOpen' = r.open
    /\ mqttDisconnectsInARow' = Min(mqttDisconnectsInARow + 1, 2)
    /\ UNCHANGED <<mqttMade, msgVars>>
    /\ UNCHANGED <<authVars, svcVars, timerVars, formVars, histVars, capVars, inputVars>>

\* subscribeTopic(topic, callback): the subscriptions and the 'message'
\* listeners afterwards.  client.on adds a listener to those the client has;
\* nothing in the module removes one.
subscribeTopic(c, topic, subscribed, listeners, since) ==
    IF c = Null
    THEN [subscribed |-> subscribed, listeners |-> listeners]
    ELSE [subscribed |-> subscribed \cup {<<c, topic>>},
          listeners |-> Append(listeners, [conn |-> c, topic |-> topic, since |-> since])]

subscribeTopicCall(topic) ==
    /\ Len(mqttListeners) < capSubs
    /\ LET r == subscribeTopic(mqttClient, topic, mqttSubscribed, mqttListeners,
                               mqttLast.n) IN
       /\ mqttSubscribed' = r.subscribed
       /\ mqttListeners' = r.listeners
       /\ mqttReceived' = IF Len(r.listeners) > Len(mqttListeners)
                          THEN Append(mqttReceived, <<>>)
                          ELSE mqttReceived
    /\ mqttDisconnectsInARow' = 0
    /\ UNCHANGED <<mqttClient, mqttOpen, mqttMade, mqttLast, mqttCaught>>
    /\ UNCHANGED <<authVars, svcVars, timerVars, formVars, histVars, capVars, inputVars>>

\* unsubscribeTopic(topic): the subscriptions afterwards; the listeners stay
unsubscribeTopic(c, topic, subscribed) ==
    IF c = Null THEN subscribed ELSE subscribed \ {<<c, topic>>}

unsubscribeTopicCall(topic) ==
    /\ capSubs > 0
    /\ mqttSubscribed' = unsubscribeTopic(mqttClient, topic, mqttSubscribed)
    /\ mqttDisconnectsInARow' = 0
    /\ UNCHANGED <<mqttClient, mqttOpen, mqttMade, mqttListeners, mqttLast, mqttReceived,
                   mqttCaught>>
    /\ UNCHANGED <<authVars, svcVars, timerVars, formVars, histVars, capVars, inputVars>>

\* the listeners of connection c whose callback a message of receivedTopic
\* reaches: if (receivedTopic === topic)
called(listeners, c, receivedTopic) ==
    {i \in 1..Len(listeners) :
        /\ listeners[i].conn = c
        /\ listeners[i].topic = receivedTopic}

\* The 'message' event without the try/catch around callback(messageStr): an
\* exception leaves emit(), and the listeners after the one that threw are not
\* called.  The variant C19 is sensitive to.
emitMessage_uncaught(listeners, received, c, receivedTopic, n, malformed) ==
    [i \in 1..Len(listeners) |->
        IF /\ i \in called(listeners, c, receivedTopic)
           /\ malformed => \A j \in called(listeners, c, receivedTopic) : i <= j
        THEN Append(received[i], n)
        ELSE received[i]]

\* The 'message' event of connection c for arrival n: every listener of c runs
\* in the order of registration and calls its callback if the topic is its
\* own.  The callback of a malformed message throws, and the catch of the
\* listener logs the error.
emitMessage(listeners, received, c, receivedTopic, n, malformed) ==
    [i \in 1..Len(listeners) |->
        IF i \in called(listeners, c, receivedTopic)
        THEN Append(received[i], n)
        ELSE received[i]]

\* the broker sends a message of a subscribed topic down the open connection c
MqttOnMessage(c, receivedTopic, malformed) ==
    /\ mqttLast.n < capMsgs
    /\ c \in mqttOpen
    /\ <<c, receivedTopic>> \in mqttSubscribed
    /\ mqttLast' = [n |-> mqttLast.n + 1, conn |-> c, topic |-> receivedTopic,
                    malformed |-> malformed]
    /\ mqttReceived' = emitMessage(mqttListeners, mqttReceived, c, receivedTopic,
                                   mqttLast'.n, malformed)
    /\ mqttCaught' = IF malformed
                     THEN mqttCaught \cup
                          {<<i, mqttLast'.n>> : i \in called(mqttListeners, c, receivedTopic)}
                     ELSE mqttCaught
    /\ mqttDisconnectsInARow' = 0
    /\ UNCHANGED <<mqttClient, mqttOpen, mqttMade, mqttSubscribed, mqttListeners>>
    /\ UNCHANGED <<authVars, svcVars, timerVars, formVars, histVars, capVars, inputVars>>

\* ------------------------------------------------------------------ timers
\* The 'connect' timeout of the oldest pending connect() call k fires:
\* callback() subscribes, starts the generator and resolves the promise, then
\* isConnected = true; the continuation of the startCollection that awaited
\* the promise follows.
ConnectTimeout ==
    /\ timeouts # <<>>
    /\ queue # <<>>
    /\ Head(queue) = [timer |-> "timeout", id |-> Head(timeouts).att]
    /\ Head(timeouts).left = TimeUnitMs
    /\ LET t == Head(timeouts)
           k == t.att
           subscribed == config # Null /\ client # Null
       IN
       /\ timeouts' = Tail(timeouts)
       /\ intervals' = IF subscribed
                       THEN startMockDataGeneration(k, onMessageCallback, intervals)
                       ELSE intervals
       /\ queue' = IF intervals' # intervals
                   THEN Append(Tail(queue), [timer |-> "interval", id |-> k])
                   ELSE Tail(queue)
       /\ isConnected' = TRUE
       /\ att' = [att EXCEPT
                    ![k].state = IF subscribed THEN "resolved" ELSE @,
                    ![k].streaming = subscribed /\ onMessageCallback # Null
                                     /\ \E i \in intervals' : i.id = k]
       /\ IF subscribed
          THEN startCollectionResumed
          ELSE UNCHANGED <<isCollecting, chartDataRef, sensorData, arrivals, toast, session>>
    /\ disconnectsInARow' = 0
    /\ UNCHANGED <<authVars, mqttVars, capVars, inputVars>>
    /\ UNCHANGED <<config, client, onMessageCallback, mounted, selectedActivity, activities,
                   nDelivered, lastDelivery, saved>>

\* A tick of interval i: it clears itself when the client is not connected or
\* has no observer, and else hands a new sample to the observer.
Tick(i) ==
    /\ i \in intervals
    /\ queue # <<>>
    /\ Head(queue) = [timer |-> "interval", id |-> i.id]
    /\ i.left = TimeUnitMs
    /\ IF ~isConnected \/ onMessageCallback = Null
       THEN /\ intervals' = intervals \ {i}
            /\ queue' = Tail(queue)
            /\ UNCHANGED <<chartDataRef, sensorData, arrivals, nDelivered, lastDelivery>>
       ELSE /\ nDelivered < capSamples
            /\ nDelivered' = nDelivered + 1
            /\ intervals' = (intervals \ {i}) \cup {[i EXCEPT !.left = TickPeriodMs]}
            /\ queue' = Append(Tail(queue), Head(queue))
            /\ lastDelivery' = [gen |-> i.id, to |-> onMessageCallback, stale |-> i.stale,
                                retired |-> att[onMessageCallback].retired]
            /\ handleSensorData(nDelivered')
    /\ disconnectsInARow' = 0
    /\ UNCHANGED <<authVars, mqttVars, capVars, inputVars>>
    /\ UNCHANGED <<svcVars, timeouts, mounted, selectedActivity, activities, isCollecting,
                   toast, att, saved, session>>

\* The timer at the head of the queue reaches a milestone at which it is not
\* due yet: TimeUnitMs of its time are gone.  Only an interval has more than
\* TimeUnitMs to wait.
Advance ==
    /\ queue # <<>>
    /\ \E i \in intervals :
          /\ Head(queue) = [timer |-> "interval", id |-> i.id]
          /\ i.left > TimeUnitMs
          /\ intervals' = (intervals \ {i}) \cup {[i EXCEPT !.left = @ - TimeUnitMs]}
    /\ queue' = Append(Tail(queue), Head(queue))
    /\ disconnectsInARow' = 0
    /\ UNCHANGED <<authVars, mqttVars, capVars, inputVars>>
    /\ UNCHANGED <<svcVars, timeouts, formVars, att, nDelivered, arrivals, lastDelivery,
                   saved, session>>

Next ==
    \/ MountEffect
    \/ Unmount
    \/ \E a \in {activities[n] : n \in 1..Len(activities)} : SelectOnValueChange(a)
    \/ \E a \in {activities[n] : n \in 1..Len(activities)} : BadgeOnClick(a)
    \/ ButtonStartStop
    \/ ButtonSave
    \/ CallStartCollection
    \/ CallSaveData
    \/ CallConnectUnconfigured
    \/ PlusCircleOnClick
    \/ XOnClick
    \/ \E typed \in TypedNames : InputOnChange(typed)
    \/ ButtonAdd
    \/ connectMqtt
    \/ disconnectMqttCall
    \/ \E topic \in Topics : subscribeTopicCall(topic)
    \/ \E topic \in Topics : unsubscribeTopicCall(topic)
    \/ \E c \in mqttOpen, topic \in Topics, malformed \in BOOLEAN :
          MqttOnMessage(c, topic, malformed)
    \/ ConnectTimeout
    \/ \E i \in intervals : Tick(i)
    \/ Advance
    \/ AuthMountEffect
    \/ Reload
    \/ \E username \in Usernames, password \in Passwords : loginCall(username, password)
    \/ \E n \in 1..Len(authCalls), userError \in BOOLEAN : loginSelected(n, userError)
    \/ \E username \in Usernames, password \in Passwords : registerCall(username, password)
    \/ \E n \in 1..Len(authCalls), selectError \in BOOLEAN : registerSelected(n, selectError)
    \/ \E n \in 1..Len(authCalls), insertError \in BOOLEAN : registerInserted(n, insertError)
    \/ logout
    \/ \E username \in Usernames : AuthProvider_loginCall(username)
    \/ AuthProvider_loginResumed
    \/ \E username \in Usernames : AuthProvider_registerCall(username)
    \/ AuthProvider_registerResumed
    \/ AuthProvider_logout

Spec == Init /\ [][Next]_vars

\* ------------------------------------------------------------------ claims
LastN(s, n) == SubSeq(s, Len(s) - n + 1, Len(s))

\* C1: after each insertion the SampleWindow holds exactly min(N, 20) samples,
\* the most recently inserted ones in arrival order, N being the number of
\* samples handed to handleSensorData since the window was last emptied.
C1_WindowIsMostRecent ==
    /\ Len(chartDataRef) = Min(Len(arrivals), WindowSize)
    /\ chartDataRef = LastN(arrivals, Min(Len(arrivals), WindowSize))

C1_Witness ==
    /\ Len(arrivals) = WindowSize + 2
    /\ Len(chartDataRef) = WindowSize

\* C2: a generator timer that was running when disconnect() was called never
\* delivers a sample afterwards: the observer of a later connect() receives
\* samples only from the timer that connect started.
C2_NoTimerLeaksIntoNewSession == ~lastDelivery.stale

\* C3: a connect() that was pending when disconnect() was called never
\* connects the client and never starts a generator timer.
C3_DisconnectCancelsPendingConnect ==
    \A k \in Attempts :
        att[k].cancelled =>
            /\ att[k].state # "resolved"
            /\ \A i \in intervals : i.id # k

\* C4: a connect() issued while an earlier one has not settled is rejected,
\* and no two connection attempts are ever pending together.
C4_SecondConnectIsRejected ==
    /\ \A k \in Attempts : att[k].busy => att[k].state = "rejected"
    /\ Len(timeouts) <= 1

C6_DisconnectIsIdempotent ==
    [][/\ (disconnectsInARow >= 1 /\ disconnectsInARow' = 2) =>
            /\ UNCHANGED <<config, client, onMessageCallback, isConnected, timeouts, intervals, queue>>
            /\ ~isConnected'
       /\ (mqttDisconnectsInARow >= 1 /\ mqttDisconnectsInARow' = 2) =>
            /\ UNCHANGED <<mqttClient, mqttOpen, mqttMade, msgVars>>
            /\ mqttClient' = Null]_vars

C6_Witness ==
    /\ disconnectsInARow = 2
    /\ \E k \in Attempts : att[k].retired

\* C7: when the promise of a connect() issued with a configuration resolves,
\* the client is connected, the observer is registered and the data source
\* that connect started is running.
C7_ResolvedConnectIsStreaming ==
    \A k \in Attempts :
        (att[k].configured /\ att[k].state = "resolved") => att[k].streaming

C9_SaveHandsOffAllReceived ==
    saved.ok => (saved.count = saved.received /\ saved.activity # "")

\* C10: saveData called with nothing collected shows "No Data", reports no
\* save and leaves the window, the received samples and the recording state
\* as they were.
C10_SaveWithoutDataFails ==
    [][(/\ Len(chartDataRef) = 0
        /\ toast' \in {"No Data", "Data Saved"}
        /\ (toast' # toast \/ saved' # saved)) =>
          /\ toast' = "No Data"
          /\ saved' = saved
          /\ UNCHANGED <<chartDataRef, sensorData, arrivals, isCollecting>>]_vars

C10_Witness ==
    /\ toast = "No Data"
    /\ Len(chartDataRef) = 0
    /\ ~saved.ok

\* C11 as stated: addNewActivity shows "Activity Exists" exactly when the
\* trimmed, lower-cased name is among the activities, and then changes neither
\* the activities nor the selected activity; in every other case it adds the
\* name and selects it.
C11_AddsUnlessDuplicate ==
    lastAdd.outcome # "none" =>
        /\ (lastAdd.outcome = "Activity Exists") <=> lastAdd.existed
        /\ lastAdd.existed => (lastAdd.setUnchanged /\ lastAdd.selectedUnchanged)
        /\ ~lastAdd.existed =>
               (lastAdd.outcome = "Activity Added" /\ lastAdd.appended /\ lastAdd.selected)

\* C11 as amended: addNewActivity shows "Invalid Activity" exactly when the
\* typed name is blank and "Activity Exists" exactly when the trimmed,
\* lower-cased name is among the activities, and in both cases changes neither
\* the activities nor the selected activity; in every other case it appends
\* the trimmed, lower-cased name and selects it.
C11_AddsUnlessBlankOrDuplicate ==
    lastAdd.outcome # "none" =>
        /\ (lastAdd.outcome = "Invalid Activity") <=> lastAdd.blank
        /\ (lastAdd.outcome = "Activity Exists") <=> lastAdd.existed
        /\ (lastAdd.blank \/ lastAdd.existed) =>
               (lastAdd.setUnchanged /\ lastAdd.selectedUnchanged)
        /\ (~lastAdd.blank /\ ~lastAdd.existed) =>
               (lastAdd.outcome = "Activity Added" /\ lastAdd.appended /\ lastAdd.selected)

C11_Witness ==
    /\ lastAdd.outcome = "Activity Exists"
    /\ lastAdd.name = "run"
    /\ Len(activities) = Len(DEFAULT_ACTIVITIES) + 1
    /\ selectedActivity = "sitting"

\* C12: startCollection called with no activity selected shows the toast
\* "Error" and does nothing else: isCollecting stays false, connect() is not
\* called (no attempt is recorded, the client, the observer and the timers are
\* as they were) and the window is unchanged.
C12_StartWithoutActivityIsBlocked ==
    [][(startCollection /\ selectedActivity = "") =>
          /\ toast' = "Error"
          /\ ~isCollecting'
          /\ UNCHANGED <<isCollecting, att, svcVars, timerVars, chartDataRef, sensorData,
                         arrivals>>]_vars

C12_Witness ==
    /\ toast = "Error"
    /\ selectedActivity = ""
    /\ ~isCollecting
    /\ nConnects = 0
    /\ mounted = "mounted"

\* C14: when the controller enters Recording the window is empty, and while it
\* is Recording the window holds only samples delivered since it last entered
\* Recording.
C14_WindowHoldsCurrentSessionOnly ==
    /\ [](isCollecting => \A n \in 1..Len(chartDataRef) : chartDataRef[n] > session.first)
    /\ [][(session'.first # session.first \/ (~isCollecting /\ isCollecting')) =>
              chartDataRef' = <<>>]_vars

C14_Witness ==
    /\ isCollecting
    /\ session.first > 0
    /\ Len(chartDataRef) > 0

\* C15: from the completion of stopCollection until the next startCollection
\* calls connect(), the window is the one stopCollection left.
C15_WindowFrozenAfterStop == session.stopped => chartDataRef = session.snapshot

\* C16: as long as the last connect() called is one that was rejected, the
\* client is not connected, has no observer, and no timeout and no generator
\* timer is live.
C16_RejectedConnectLeavesClientDisconnected ==
    (nConnects > 0 /\ att[nConnects].state = "rejected") =>
        /\ ~isConnected
        /\ onMessageCallback = Null
        /\ intervals = {}
        /\ timeouts = <<>>
        /\ queue = <<>>

C16_Witness ==
    /\ nConnects > 0
    /\ att[nConnects].state = "rejected"
    /\ mounted = "mounted"
    /\ selectedActivity # ""
    /\ ~isConnected

\* C17: once subscribeTopic has been called again for a topic on the same
\* client, the callback of the earlier call is not called with any message that
\* arrives afterwards.
C17_OnlyLatestHandlerReceives ==
    \A i, j \in 1..Len(mqttListeners) :
        (/\ i < j
         /\ mqttListeners[i].conn = mqttListeners[j].conn
         /\ mqttListeners[i].topic = mqttListeners[j].topic) =>
            \A m \in 1..Len(mqttReceived[i]) : mqttReceived[i][m] <= mqttListeners[j].since

\* C18: at most one connection opened by connectMqtt is open, and it is the
\* one the module's client refers to.
C18_AtMostOneLiveConnection ==
    /\ Cardinality(mqttOpen) <= 1
    /\ \A c \in mqttOpen : c = mqttClient

\* C19: a message that arrives on a connection is handed to the callback of
\* every subscribeTopic call made for its topic on that connection and to no
\* other callback, whether or not a callback threw on an earlier message or
\* throws on this one; a callback is called with its messages in the order of
\* arrival; a throwing callback changes nothing else.
C19_ThrowingCallbackDoesNotHaltStream ==
    /\ [][mqttLast'.n # mqttLast.n =>
            /\ \A i \in 1..Len(mqttListeners) :
                  mqttReceived'[i] =
                      IF /\ mqttListeners[i].conn = mqttLast'.conn
                         /\ mqttListeners[i].topic = mqttLast'.topic
                      THEN Append(mqttReceived[i], mqttLast'.n)
                      ELSE mqttReceived[i]
            /\ UNCHANGED <<mqttClient, mqttOpen, mqttSubscribed, mqttListeners>>]_vars
    /\ [](\A i \in 1..Len(mqttReceived) :
            \A a, b \in 1..Len(mqttReceived[i]) :
                a < b => mqttReceived[i][a] < mqttReceived[i][b])

C19_Witness ==
    \E i \in 1..Len(mqttListeners) :
        /\ Len(mqttReceived[i]) >= 2
        /\ <<i, mqttReceived[i][1]>> \in mqttCaught
        /\ <<i, mqttReceived[i][2]>> \notin mqttCaught
        /\ \E j \in 1..Len(mqttListeners) :
              mqttListeners[j].topic # mqttListeners[i].topic /\ mqttReceived[j] = <<>>

\* C20: from the completion of stopCollection until the next startCollection
\* calls connect(), isCollecting is false.
C20_IdleAfterStop == session.stopped => ~isCollecting

\* C21: While the controller is Recording the selected activity is the one
\* the recording was started with: no select, badge click, opening of the
\* new-activity input or added activity changes selectedActivity before the
\* next stop.
C21_ActivityFixedWhileRecording == isCollecting => selectedActivity = session.activity

\* C22: In every reachable state the known activities contain the three
\* defaults standing, sitting and walking, every entry is non-empty, has no
\* blank at either end and no upper-case letter, and no two entries are
\* equal; no step removes or reorders an entry: the activities before a step
\* are the first entries of the activities after it.
C22_ActivitiesWellFormed ==
    /\ [](/\ \A d \in 1..Len(DEFAULT_ACTIVITIES) : includes(activities, DEFAULT_ACTIVITIES[d])
          /\ \A n \in 1..Len(activities) :
                LET name == split(activities[n]) IN
                /\ name # <<>>
                /\ Head(name) \notin WhiteSpace
                /\ name[Len(name)] \notin WhiteSpace
                /\ \A c \in 1..Len(name) : name[c] \notin UpperCase
          /\ \A n, o \in 1..Len(activities) : activities[n] = activities[o] => n = o)
    /\ [][/\ Len(activities') >= Len(activities)
          /\ SubSeq(activities', 1, Len(activities)) = activities]_vars

\* a name was added, and a second spelling of it was then refused
C22_Witness ==
    /\ Len(activities) > Len(DEFAULT_ACTIVITIES)
    /\ lastAdd.outcome = "Activity Exists"
    /\ lastAdd.name = activities[Len(activities)]
    /\ lastAdd.setUnchanged

\* C23: Every login() or register() call ends with isLoading false, whether
\* it succeeds or throws: the call that ended last left isLoading false.
C23_EveryCallEndsNotLoading == authLast.op # "none" => ~authLast.isLoading

====
